---- MODULE Spec2Model ----
(***************************************************************************)
(* State-machine model of the yatube posts application: the request       *)
(* handlers of posts/views.py over the tables of posts/models.py and the  *)
(* 'index_page' cache entry.                                               *)
(***************************************************************************)
EXTENDS Integers, Sequences, FiniteSets

(***************************************************************************)
(* Bounds of the model.                                                    *)
(***************************************************************************)
MaxPosts == 2          \* rows the Post table may hold in the handler specs
MaxComments == 1       \* rows the Comment table may hold
MaxFollowRows == 3     \* Follow rows ever inserted (primary keys 1..MaxFollowRows)
MaxTime == 20          \* the clock stops advancing here
TickStep == 10         \* seconds the clock advances in one step
MaxFeedPosts == 23     \* Post rows in the pagination specification

(***************************************************************************)
(* Program constants.                                                      *)
(***************************************************************************)
PerPage == 10          \* Paginator(post_list, 10)
CacheTimeout == 20     \* cache.set('index_page', data, 20)
MaxTextLen == 200      \* TextField(max_length=200)

(***************************************************************************)
(* The fixed population: registered users, groups, and the values a       *)
(* request may carry.                                                      *)
(***************************************************************************)
Users == {"u1", "u2"}
Anonymous == "anonymous"               \* request.user of a client not logged in
Clients == Users \cup {Anonymous}
Usernames == Users \cup {"ghost"}      \* "ghost" names no registered user
Groups == {"g1"}
Slugs == Groups \cup {"nogroup"}       \* "nogroup" is the slug of no group
NoGroup == "null"                      \* Post.group is NULL
NoImage == "null"                      \* Post.image is NULL
Procs == {1, 2}                        \* workers handling requests

VARIABLES
    posts,      \* the Post table: posts[i] is the row with id i
    comments,   \* the Comment table
    follows,    \* the Follow table: a set of rows [id, user, author]
    nextFollow, \* the next primary key of the Follow table
    cache,      \* the 'index_page' cache entry
    now,        \* the clock, in seconds
    pc,         \* pc[p]: the statement worker p runs next, "idle" between requests
    req,        \* req[p]: the request worker p is handling and the view's locals
    overlap,    \* some follow request began while another was in flight
    late,       \* ids of the posts created while the stored entry was live
    resp        \* the last response sent

vars ==
    <<posts, comments, follows, nextFollow, cache, now, pc, req, overlap, late, resp>>

(***************************************************************************)
(* Values of the model.                                                    *)
(***************************************************************************)
\* The 'page' parameter of a request: absent, an integer, or another string.
PageAbsent == [kind |-> "absent", n |-> 0]
PageInt(n) == [kind |-> "int", n |-> n]
PageText == [kind |-> "text", n |-> 0]

\* A URL as reverse() builds it: the route's name and its keyword arguments,
\* without a query string.
Path(name, username, post_id) ==
    [name |-> name, username |-> username, post_id |-> post_id, page |-> PageAbsent]

\* request.get_full_path() of a feed: the path and its ?page= query string.
FullPath(name, param) == [Path(name, "", 0) EXCEPT !.page = param]

NoPath == Path("", "", 0)

\* A response: the view that answered, the client it goes to, the status, the
\* redirect's target with its ?next= parameter, and the page of a feed.
Response(view, client, status, location, next, page, following) ==
    [view |-> view, client |-> client, status |-> status, location |-> location,
     next |-> next, page |-> page, following |-> following]

\* render(request, template, context): the context's page and following flag.
render(view, client, page, following) ==
    Response(view, client, 200, NoPath, NoPath, page, following)

redirect(view, client, location) ==
    Response(view, client, 302, location, NoPath, <<>>, FALSE)

\* get_object_or_404 found no row.
Http404(view, client) == Response(view, client, 404, NoPath, NoPath, <<>>, FALSE)

\* An exception no view catches: Django answers with the 500 page.
server_error(view, client) ==
    Response(view, client, 500, NoPath, NoPath, <<>>, FALSE)

\* @login_required for a client not logged in: to the login URL, next=path.
redirect_to_login(view, path) ==
    Response(view, Anonymous, 302, Path("login", "", 0), path, <<>>, FALSE)

NoResponse == Response("", Anonymous, 0, NoPath, NoPath, <<>>, FALSE)

\* A text is the sequence of its characters.
EmptyText == <<>>
LongText == [i \in 1..(MaxTextLen + 1) |-> "x"]

\* The submitted data of a PostForm or a CommentForm (group and image unused);
\* NoData is a GET request, or a POST without data.
FormData(text, group, image) ==
    [bound |-> TRUE, text |-> text, group |-> group, image |-> image]

NoData == [bound |-> FALSE, text |-> EmptyText, group |-> NoGroup, image |-> NoImage]

\* PostForm(...).is_valid() and CommentForm(...).is_valid(): the text is not
\* empty and at most 200 characters, the group exists or is blank, and the
\* uploaded file, if any, is an image.
is_valid(form) ==
    /\ form.bound
    /\ Len(form.text) >= 1
    /\ Len(form.text) <= MaxTextLen
    /\ form.group \in Groups \cup {NoGroup}
    /\ form.image \in {NoImage, "pic.jpg"}

is_authenticated(user) == user # Anonymous

(***************************************************************************)
(* Post.Meta.ordering = ['-pub_date', '-id'] and the querysets.            *)
(***************************************************************************)
\* Row p comes before row q in a Post queryset.
Newer(p, q) ==
    \/ p.pub_date > q.pub_date
    \/ p.pub_date = q.pub_date /\ p.id > q.id

\* The sorted list with `copies` copies of row r put at their place.
insert_row(sorted, r, copies) ==
    LET k == Cardinality({i \in 1..Len(sorted) : Newer(sorted[i], r)})
    IN  SubSeq(sorted, 1, k) \o [i \in 1..copies |-> r]
          \o SubSeq(sorted, k + 1, Len(sorted))

\* The first n rows of the table, row i repeated mult[i] times, in the
\* model's ordering.
RECURSIVE order_rows(_, _, _)
order_rows(table, mult, n) ==
    IF n = 0 THEN <<>>
    ELSE insert_row(order_rows(table, mult, n - 1), table[n], mult[n])

order_by(table, mult) == order_rows(table, mult, Len(table))

\* Post.objects.select_related('author', 'group').all()
AllPosts(table) == order_by(table, [i \in 1..Len(table) |-> 1])

\* group.post.select_related('author', 'group').all()
GroupPosts(table, slug) ==
    order_by(table, [i \in 1..Len(table) |-> IF table[i].group = slug THEN 1 ELSE 0])

\* author.post.select_related('author', 'group').all()
AuthorPosts(table, author) ==
    order_by(table,
             [i \in 1..Len(table) |-> IF table[i].author = author THEN 1 ELSE 0])

\* Post.objects.filter(author__following__user=user): the join of Post with
\* Follow on the author, one result row per matching Follow row.
FollowedPosts(table, edges, user) ==
    order_by(table,
             [i \in 1..Len(table) |->
                Cardinality({f \in edges : f.user = user
                                           /\ f.author = table[i].author})])

(***************************************************************************)
(* django.core.paginator.Paginator as the views use it.                    *)
(***************************************************************************)
\* Paginator.num_pages, with allow_empty_first_page and no orphans.
num_pages(count) ==
    IF count = 0 THEN 1 ELSE (count + PerPage - 1) \div PerPage

\* Paginator.get_page: the number validate_number accepts, 1 after
\* PageNotAnInteger, the last page after EmptyPage.
page_number_first_below(param, count) ==
    IF param.kind # "int" THEN 1
    ELSE IF param.n < 1 THEN 1
    ELSE IF param.n > num_pages(count) THEN num_pages(count)
    ELSE param.n

page_number(param, count) ==
    IF param.kind # "int" THEN 1
    ELSE IF param.n < 1 THEN num_pages(count)
    ELSE IF param.n > num_pages(count) THEN num_pages(count)
    ELSE param.n

\* Paginator.page(number).object_list: the bounds come from the count, and
\* the slice is taken of the list as it is when the page is read.
page_slice(list, count, number) ==
    LET bottom == (number - 1) * PerPage
        top == IF bottom + PerPage >= count THEN count ELSE bottom + PerPage
    IN  SubSeq(list, bottom + 1, IF top <= Len(list) THEN top ELSE Len(list))

\* paginator.get_page(page_number) of a paginator that counted `count` rows.
get_page(list, count, param) == page_slice(list, count, page_number(param, count))

(***************************************************************************)
(* The cache entry 'index_page'.                                           *)
(***************************************************************************)
NoEntry == [present |-> FALSE, data |-> <<>>, exp |-> 0]

\* cache.get('index_page') is not None: the entry is there and has not expired.
cache_hit(entry, time) == entry.present /\ time < entry.exp

(***************************************************************************)
(* The Follow table.                                                       *)
(***************************************************************************)
\* Follow.objects.filter(user=user, author=author)
Edges(edges, user, author) ==
    {f \in edges : f.user = user /\ f.author = author}

\* The check with the pair the wrong way round.
user_is_follower_reversed(edges, user, author) ==
    is_authenticated(user) /\ Edges(edges, author, user) # {}

user_is_follower(edges, user, author) ==
    is_authenticated(user) /\ Edges(edges, user, author) # {}

\* A decorator that lets every client through.
login_required_anyone(user) == TRUE

\* @login_required lets the view run.
login_required(user) == is_authenticated(user)

\* The locals of a worker with no request in hand.
Idle ==
    [user |-> Anonymous, username |-> "", slug |-> "", post_id |-> 0,
     follow |-> FALSE, row |-> 0, param |-> PageAbsent, form |-> NoData,
     count |-> 0, data |-> <<>>, following |-> FALSE]

FollowView(follow) == IF follow THEN "profile_follow" ELSE "profile_unfollow"

(***************************************************************************)
(* The initial state: empty tables, no cache entry, every worker idle.     *)
(***************************************************************************)
Init ==
    /\ posts = <<>>
    /\ comments = <<>>
    /\ follows = {}
    /\ nextFollow = 1
    /\ cache = NoEntry
    /\ now = 0
    /\ pc = [p \in Procs |-> "idle"]
    /\ req = [p \in Procs |-> Idle]
    /\ overlap = FALSE
    /\ late = {}
    /\ resp = NoResponse

(***************************************************************************)
(* The read views, a worker p at a time.  Each statement that reads or     *)
(* writes the cache or a table is a step of its own: other workers, the    *)
(* clock and cache.clear() may run between two of them.                    *)
(***************************************************************************)
\* index up to cache.get('index_page'): on a hit the entry's list is
\* paginated and rendered with no further query.
index(p, user, param) ==
    /\ pc[p] = "idle"
    /\ IF cache_hit(cache, now)
       THEN /\ resp' = render("index", user,
                              get_page(cache.data, Len(cache.data), param), FALSE)
            /\ UNCHANGED <<pc, req>>
       ELSE /\ pc' = [pc EXCEPT ![p] = "index_select"]
            /\ req' = [req EXCEPT ![p] = [Idle EXCEPT !.user = user, !.param = param]]
            /\ resp' = resp
    /\ UNCHANGED <<posts, comments, follows, nextFollow, cache, now, overlap, late>>

\* The miss: cache.set pickles the queryset, which reads the Post table ...
index_select(p) ==
    /\ pc[p] = "index_select"
    /\ pc' = [pc EXCEPT ![p] = "index_set"]
    /\ req' = [req EXCEPT ![p].data = AllPosts(posts)]
    /\ UNCHANGED <<posts, comments, follows, nextFollow, cache, now, overlap, late,
                   resp>>

\* ... and stores the rows read for 20 seconds from now; the page is then
\* rendered from the same rows.
index_set(p) ==
    /\ pc[p] = "index_set"
    /\ cache' = [present |-> TRUE, data |-> req[p].data, exp |-> now + CacheTimeout]
    /\ late' = {}
    /\ resp' = render("index", req[p].user,
                      get_page(req[p].data, Len(req[p].data), req[p].param), FALSE)
    /\ pc' = [pc EXCEPT ![p] = "idle"]
    /\ req' = [req EXCEPT ![p] = Idle]
    /\ UNCHANGED <<posts, comments, follows, nextFollow, now, overlap>>

\* group_posts up to paginator.get_page, which counts the group's posts.
group_posts(p, user, slug, param) ==
    /\ pc[p] = "idle"
    /\ IF slug \notin Groups
       THEN /\ resp' = Http404("group_posts", user)
            /\ UNCHANGED <<pc, req>>
       ELSE /\ pc' = [pc EXCEPT ![p] = "group_page"]
            /\ req' = [req EXCEPT ![p] =
                         [Idle EXCEPT !.user = user, !.slug = slug, !.param = param,
                                      !.count = Len(GroupPosts(posts, slug))]]
            /\ resp' = resp
    /\ UNCHANGED <<posts, comments, follows, nextFollow, cache, now, overlap, late>>

\* The page read out of the cached home list when there is one.
group_page_cached(p) ==
    /\ pc[p] = "group_page"
    /\ resp' = render("group_posts", req[p].user,
                      get_page(IF cache_hit(cache, now)
                               THEN SelectSeq(cache.data,
                                              LAMBDA r : r.group = req[p].slug)
                               ELSE GroupPosts(posts, req[p].slug),
                               req[p].count, req[p].param),
                      FALSE)
    /\ pc' = [pc EXCEPT ![p] = "idle"]
    /\ req' = [req EXCEPT ![p] = Idle]
    /\ UNCHANGED <<posts, comments, follows, nextFollow, cache, now, overlap, late>>

\* render: the template reads the page, a slice of the group's posts as they
\* are now within the bounds the count gave.
group_page(p) ==
    /\ pc[p] = "group_page"
    /\ resp' = render("group_posts", req[p].user,
                      get_page(GroupPosts(posts, req[p].slug),
                               req[p].count, req[p].param),
                      FALSE)
    /\ pc' = [pc EXCEPT ![p] = "idle"]
    /\ req' = [req EXCEPT ![p] = Idle]
    /\ UNCHANGED <<posts, comments, follows, nextFollow, cache, now, overlap, late>>

\* profile up to paginator.get_page, which counts the author's posts.
profile(p, user, username, param) ==
    /\ pc[p] = "idle"
    /\ IF username \notin Users
       THEN /\ resp' = Http404("profile", user)
            /\ UNCHANGED <<pc, req>>
       ELSE /\ pc' = [pc EXCEPT ![p] = "profile_follower"]
            /\ req' = [req EXCEPT ![p] =
                         [Idle EXCEPT !.user = user, !.username = username,
                                      !.param = param,
                                      !.count = Len(AuthorPosts(posts, username))]]
            /\ resp' = resp
    /\ UNCHANGED <<posts, comments, follows, nextFollow, cache, now, overlap, late>>

\* The context's 'following': user_is_follower(request.user, author).
profile_follower(p) ==
    /\ pc[p] = "profile_follower"
    /\ pc' = [pc EXCEPT ![p] = "profile_page"]
    /\ req' = [req EXCEPT ![p].following =
                 user_is_follower(follows, req[p].user, req[p].username)]
    /\ UNCHANGED <<posts, comments, follows, nextFollow, cache, now, overlap, late,
                   resp>>

\* render: the template reads the page of the author's posts.
profile_page(p) ==
    /\ pc[p] = "profile_page"
    /\ resp' = render("profile", req[p].user,
                      get_page(AuthorPosts(posts, req[p].username),
                               req[p].count, req[p].param),
                      req[p].following)
    /\ pc' = [pc EXCEPT ![p] = "idle"]
    /\ req' = [req EXCEPT ![p] = Idle]
    /\ UNCHANGED <<posts, comments, follows, nextFollow, cache, now, overlap, late>>

\* follow_index up to paginator.get_page, which counts the rows of the join;
\* a client not logged in is sent to the login URL with the full path.
follow_index(p, user, param) ==
    /\ pc[p] = "idle"
    /\ IF ~login_required(user)
       THEN /\ resp' = redirect_to_login("follow_index",
                                         FullPath("follow_index", param))
            /\ UNCHANGED <<pc, req>>
       ELSE /\ pc' = [pc EXCEPT ![p] = "follow_page"]
            /\ req' = [req EXCEPT ![p] =
                         [Idle EXCEPT !.user = user, !.param = param,
                                      !.count = Len(FollowedPosts(posts, follows,
                                                                  user))]]
            /\ resp' = resp
    /\ UNCHANGED <<posts, comments, follows, nextFollow, cache, now, overlap, late>>

\* render: the template reads the page of the join as it is now.
follow_page(p) ==
    /\ pc[p] = "follow_page"
    /\ resp' = render("follow_index", req[p].user,
                      get_page(FollowedPosts(posts, follows, req[p].user),
                               req[p].count, req[p].param),
                      FALSE)
    /\ pc' = [pc EXCEPT ![p] = "idle"]
    /\ req' = [req EXCEPT ![p] = Idle]
    /\ UNCHANGED <<posts, comments, follows, nextFollow, cache, now, overlap, late>>

(***************************************************************************)
(* The write views.                                                        *)
(***************************************************************************)
\* get_object_or_404(Post, id=post_id, author__username=username) finds a row.
post_exists(table, username, post_id) ==
    post_id \in 1..Len(table) /\ table[post_id].author = username

\* post.save() of a new row: the next id, pub_date set by auto_now_add.
post_insert(table, user, form, time) ==
    Append(table, [id |-> Len(table) + 1, text |-> form.text, pub_date |-> time,
                   author |-> user, group |-> form.group, image |-> form.image])

\* form.save() of PostForm(instance=post): an UPDATE of every column of the
\* row with the instance's id, from the instance as it was read, with the
\* form's text and group; a form without an uploaded file keeps the
\* instance's image.
post_update(table, instance, form) ==
    [table EXCEPT ![instance.id] =
        [instance EXCEPT !.text = form.text, !.group = form.group,
                         !.image = IF form.image = NoImage THEN @ ELSE form.image]]

new_post(user, form) ==
    /\ IF ~login_required(user)
       THEN /\ resp' = redirect_to_login("new_post", Path("new_post", "", 0))
            /\ UNCHANGED <<posts, late>>
       ELSE IF is_valid(form)
       THEN /\ posts' = post_insert(posts, user, form, now)
            /\ late' = IF cache_hit(cache, now) THEN late \cup {Len(posts) + 1}
                       ELSE late
            /\ resp' = redirect("new_post", user, Path("index", "", 0))
       ELSE /\ resp' = render("new_post", user, <<>>, FALSE)
            /\ UNCHANGED <<posts, late>>
    /\ UNCHANGED <<comments, follows, nextFollow, cache, now, pc, req, overlap>>

\* post_edit without the comparison of request.user.username with the URL.
post_edit_branch_any_user(user, username, post_id, form) ==
    IF ~login_required(user) THEN "login"
    ELSE IF ~post_exists(posts, username, post_id) THEN "404"
    ELSE IF form.bound /\ is_valid(form) THEN "save"
    ELSE "form"

\* The branch post_edit takes.
post_edit_branch(user, username, post_id, form) ==
    IF ~login_required(user) THEN "login"
    ELSE IF user # username THEN "redirect"
    ELSE IF ~post_exists(posts, username, post_id) THEN "404"
    ELSE IF form.bound /\ is_valid(form) THEN "save"
    ELSE "form"

\* post_edit up to form.is_valid(): the instance is read here, and a valid
\* form goes on to save it.
post_edit(p, user, username, post_id, form) ==
    /\ pc[p] = "idle"
    /\ LET branch == post_edit_branch(user, username, post_id, form)
       IN  IF branch = "save"
           THEN /\ pc' = [pc EXCEPT ![p] = "post_save"]
                /\ req' = [req EXCEPT ![p] =
                             [Idle EXCEPT !.user = user, !.username = username,
                                          !.post_id = post_id, !.form = form,
                                          !.data = <<posts[post_id]>>]]
                /\ resp' = resp
           ELSE /\ resp' = CASE branch = "login" ->
                                  redirect_to_login("post_edit",
                                                    Path("post_edit", username,
                                                         post_id))
                             [] branch = "404" -> Http404("post_edit", user)
                             [] branch = "form" ->
                                  render("post_edit", user, <<>>, FALSE)
                             [] OTHER -> redirect("post_edit", user,
                                                  Path("post", username, post_id))
                /\ UNCHANGED <<pc, req>>
    /\ UNCHANGED <<posts, comments, follows, nextFollow, cache, now, overlap, late>>

\* form.save(), then the redirect to the post.
post_save(p) ==
    /\ pc[p] = "post_save"
    /\ posts' = post_update(posts, req[p].data[1], req[p].form)
    /\ resp' = redirect("post_edit", req[p].user,
                        Path("post", req[p].username, req[p].post_id))
    /\ pc' = [pc EXCEPT ![p] = "idle"]
    /\ req' = [req EXCEPT ![p] = Idle]
    /\ UNCHANGED <<comments, follows, nextFollow, cache, now, overlap, late>>

\* add_comment up to form.is_valid(): the post is read here, and a valid
\* form goes on to save the comment; any other is answered with the redirect.
add_comment(p, user, username, post_id, form) ==
    /\ pc[p] = "idle"
    /\ IF login_required(user) /\ post_exists(posts, username, post_id)
          /\ is_valid(form)
       THEN /\ pc' = [pc EXCEPT ![p] = "comment_save"]
            /\ req' = [req EXCEPT ![p] =
                         [Idle EXCEPT !.user = user, !.username = username,
                                      !.post_id = post_id, !.form = form]]
            /\ resp' = resp
       ELSE /\ resp' = IF ~login_required(user)
                       THEN redirect_to_login("add_comment",
                                              Path("add_comment", username,
                                                   post_id))
                       ELSE IF ~post_exists(posts, username, post_id)
                       THEN Http404("add_comment", user)
                       ELSE redirect("add_comment", user,
                                     Path("post", username, post_id))
            /\ UNCHANGED <<pc, req>>
    /\ UNCHANGED <<posts, comments, follows, nextFollow, cache, now, overlap, late>>

\* comment.save() of the new row, created set by auto_now_add, then the
\* redirect to the post.
comment_save(p) ==
    /\ pc[p] = "comment_save"
    /\ comments' = Append(comments,
                          [text |-> req[p].form.text, created |-> now,
                           post |-> req[p].post_id, author |-> req[p].user])
    /\ resp' = redirect("add_comment", req[p].user,
                        Path("post", req[p].username, req[p].post_id))
    /\ pc' = [pc EXCEPT ![p] = "idle"]
    /\ req' = [req EXCEPT ![p] = Idle]
    /\ UNCHANGED <<posts, follows, nextFollow, cache, now, overlap, late>>

(***************************************************************************)
(* profile_follow and profile_unfollow, a worker p at a time.  The         *)
(* existence check, the insert, the select and the delete are separate     *)
(* statements: other workers may run between them.                         *)
(***************************************************************************)
\* What profile_following does after @login_required and the user lookup:
\* leave at once, or go on to the insert or to the select.
following_branch_no_self(edges, user, username, follow) ==
    IF username \notin Users THEN "404"
    ELSE IF follow /\ ~user_is_follower(edges, user, username) THEN "create"
    ELSE IF ~follow /\ user_is_follower(edges, user, username) THEN "get"
    ELSE "none"

following_branch(edges, user, username, follow) ==
    IF username \notin Users THEN "404"
    ELSE IF user = username THEN "self"
    ELSE IF follow /\ ~user_is_follower(edges, user, username) THEN "create"
    ELSE IF ~follow /\ user_is_follower(edges, user, username) THEN "get"
    ELSE "none"

\* The request arrives; the view runs up to and including its existence check.
profile_following(p, user, username, follow) ==
    /\ pc[p] = "idle"
    /\ overlap' = (overlap \/ \E q \in Procs \ {p} : pc[q] # "idle")
    /\ IF ~login_required(user)
       THEN /\ resp' = redirect_to_login(FollowView(follow),
                                         Path(FollowView(follow), username, 0))
            /\ UNCHANGED <<pc, req>>
       ELSE LET branch == following_branch(follows, user, username, follow)
            IN  IF branch \in {"create", "get"}
                THEN /\ pc' = [pc EXCEPT ![p] = branch]
                     /\ req' = [req EXCEPT ![p] =
                                  [Idle EXCEPT !.user = user,
                                               !.username = username,
                                               !.follow = follow]]
                     /\ resp' = resp
                ELSE /\ resp' = IF branch = "404"
                                THEN Http404(FollowView(follow), user)
                                ELSE redirect(FollowView(follow), user,
                                              Path("profile", username, 0))
                     /\ UNCHANGED <<pc, req>>
    /\ UNCHANGED <<posts, comments, follows, nextFollow, cache, now, late>>

\* An insert that a row of the same pair turns into nothing, as under a
\* uniqueness constraint handled by get_or_create.
follow_create_if_absent(p) ==
    /\ pc[p] = "create"
    /\ follows' = IF Edges(follows, req[p].user, req[p].username) # {} THEN follows
                  ELSE follows \cup {[id |-> nextFollow, user |-> req[p].user,
                                      author |-> req[p].username]}
    /\ nextFollow' = nextFollow + 1
    /\ pc' = [pc EXCEPT ![p] = "idle"]
    /\ req' = [req EXCEPT ![p] = Idle]
    /\ resp' = redirect("profile_follow", req[p].user,
                        Path("profile", req[p].username, 0))
    /\ UNCHANGED <<posts, comments, cache, now, overlap, late>>

\* Follow.objects.create(user=user, author=author), then the redirect.
follow_create(p) ==
    /\ pc[p] = "create"
    /\ follows' = follows \cup {[id |-> nextFollow, user |-> req[p].user,
                                 author |-> req[p].username]}
    /\ nextFollow' = nextFollow + 1
    /\ pc' = [pc EXCEPT ![p] = "idle"]
    /\ req' = [req EXCEPT ![p] = Idle]
    /\ resp' = redirect("profile_follow", req[p].user,
                        Path("profile", req[p].username, 0))
    /\ UNCHANGED <<posts, comments, cache, now, overlap, late>>

\* Follow.objects.get(user=user, author=author): one row, or DoesNotExist, or
\* MultipleObjectsReturned.
follow_get(p) ==
    /\ pc[p] = "get"
    /\ LET found == Edges(follows, req[p].user, req[p].username)
       IN  IF Cardinality(found) = 1
           THEN /\ pc' = [pc EXCEPT ![p] = "delete"]
                /\ req' = [req EXCEPT ![p].row = (CHOOSE f \in found : TRUE).id]
                /\ resp' = resp
           ELSE /\ pc' = [pc EXCEPT ![p] = "idle"]
                /\ req' = [req EXCEPT ![p] = Idle]
                /\ resp' = server_error("profile_unfollow", req[p].user)
    /\ UNCHANGED <<posts, comments, follows, nextFollow, cache, now, overlap, late>>

\* .delete() of the row fetched, by primary key, then the redirect.
follow_delete(p) ==
    /\ pc[p] = "delete"
    /\ follows' = {f \in follows : f.id # req[p].row}
    /\ pc' = [pc EXCEPT ![p] = "idle"]
    /\ req' = [req EXCEPT ![p] = Idle]
    /\ resp' = redirect("profile_unfollow", req[p].user,
                        Path("profile", req[p].username, 0))
    /\ UNCHANGED <<posts, comments, nextFollow, cache, now, overlap, late>>

(***************************************************************************)
(* The environment: the clock, and cache.clear().                          *)
(***************************************************************************)
tick ==
    /\ now + TickStep <= MaxTime
    /\ now' = now + TickStep
    /\ UNCHANGED <<posts, comments, follows, nextFollow, cache, pc, req, overlap, late,
                   resp>>

cache_clear ==
    /\ cache' = NoEntry
    /\ UNCHANGED <<posts, comments, follows, nextFollow, now, pc, req, overlap, late,
                   resp>>

(***************************************************************************)
(* The requests the specifications draw, and the guards that keep the      *)
(* tables within the bounds.                                               *)
(***************************************************************************)
PlainPost == FormData(<<"a">>, NoGroup, NoImage)
GroupPost == FormData(<<"b">>, "g1", "pic.jpg")

PostsBelow(max) == Len(posts) < max

\* Every insert a worker has yet to make still gets a primary key.
FollowRowsLeft ==
    nextFollow + Cardinality({q \in Procs : pc[q] = "create"}) <= MaxFollowRows

AllIdle == \A q \in Procs : pc[q] = "idle"

\* Worker p is the first of the idle workers: the one a new request goes to.
FirstIdle(p) == pc[p] = "idle" /\ \A q \in Procs : q < p => pc[q] # "idle"

Request ==
    \E p \in Procs, user \in Users, username \in Users, follow \in BOOLEAN :
        /\ follow => FollowRowsLeft
        /\ profile_following(p, user, username, follow)

\* A request that begins only when no other is being handled.
SeqRequest ==
    \E p \in Procs, user \in Users, username \in Usernames, follow \in BOOLEAN :
        /\ AllIdle
        /\ follow => FollowRowsLeft
        /\ profile_following(p, user, username, follow)

Create == \E p \in Procs : follow_create(p)

Select == \E p \in Procs : follow_get(p)

Delete == \E p \in Procs : follow_delete(p)

Publish ==
    \E user \in Users : PostsBelow(MaxPosts) /\ new_post(user, PlainPost)

\* The steps that follow the arrival of a request, whichever worker is due.
HomeSelect == \E p \in Procs : index_select(p)

HomeStore == \E p \in Procs : index_set(p)

GroupRead == \E p \in Procs : group_page(p)

ProfileCheck == \E p \in Procs : profile_follower(p)

ProfileRead == \E p \in Procs : profile_page(p)

FeedRead == \E p \in Procs : follow_page(p)

EditSave == \E p \in Procs : post_save(p)

CommentSave == \E p \in Procs : comment_save(p)

(***************************************************************************)
(* SpecSeq: follow and unfollow requests handled one at a time.            *)
(***************************************************************************)
NextSeq == SeqRequest \/ Create \/ Select \/ Delete

SpecSeq == Init /\ [][NextSeq]_vars

(***************************************************************************)
(* SpecFollow: follow and unfollow requests of two workers interleaved     *)
(* with each other, with new posts and with requests of the follow feed    *)
(* of u1.                                                                  *)
(***************************************************************************)
Feed == \E p \in Procs : follow_index(p, "u1", PageAbsent)

NextFollow ==
    Request \/ Create \/ Select \/ Delete \/ Publish \/ Feed \/ FeedRead

SpecFollow == Init /\ [][NextFollow]_vars

(***************************************************************************)
(* SpecCache: two workers answer the home feed while posts are created,    *)
(* the clock runs and the cache may be cleared.                            *)
(***************************************************************************)
Readers == {"u1"}

Home == \E p \in Procs, user \in Readers : index(p, user, PageAbsent)

PublishOne == PostsBelow(MaxPosts) /\ new_post("u2", PlainPost)

NextCache == Home \/ HomeSelect \/ HomeStore \/ PublishOne \/ tick \/ cache_clear

SpecCache == Init /\ [][NextCache]_vars

(***************************************************************************)
(* SpecFeed: one worker answers the home, group, profile and follow feeds, *)
(* one request after the other, while posts are created, the clock runs    *)
(* and the cache may be cleared between any two of its steps.              *)
(***************************************************************************)
FeedWorker == 1

HomeFeed == \E user \in Readers : index(FeedWorker, user, PageAbsent)

GroupFeed ==
    \E user \in Readers, slug \in Slugs :
        group_posts(FeedWorker, user, slug, PageAbsent)

ProfileFeed ==
    \E user \in Readers, username \in Usernames :
        profile(FeedWorker, user, username, PageAbsent)

FollowFeed == follow_index(FeedWorker, "u1", PageAbsent)

PublishAny ==
    \E user \in Users, form \in {PlainPost, GroupPost} :
        PostsBelow(MaxPosts) /\ new_post(user, form)

NextFeed ==
    \/ HomeFeed \/ HomeSelect \/ HomeStore
    \/ GroupFeed \/ GroupRead
    \/ ProfileFeed \/ ProfileCheck \/ ProfileRead
    \/ FollowFeed \/ FeedRead
    \/ PublishAny \/ tick \/ cache_clear

\* u1 already follows u2.
InitFeed ==
    /\ posts = <<>>
    /\ comments = <<>>
    /\ follows = {[id |-> 1, user |-> "u1", author |-> "u2"]}
    /\ nextFollow = 2
    /\ cache = NoEntry
    /\ now = 0
    /\ pc = [p \in Procs |-> "idle"]
    /\ req = [p \in Procs |-> Idle]
    /\ overlap = FALSE
    /\ late = {}
    /\ resp = NoResponse

SpecFeed == InitFeed /\ [][NextFeed]_vars

(***************************************************************************)
(* Spec: the six login-required views, requested at any moment by a client *)
(* that is not logged in and by the user u1. u1 publishes and comments at  *)
(* any moment, so that a post, or the save of an edit begun before, falls  *)
(* between the SELECT and the INSERT of a comment; an edit, a follow feed  *)
(* and a follow toggle of u1 begin when no other request is being handled. *)
(* The clock does not run.                                                 *)
(***************************************************************************)
Visitors == {Anonymous, "u1"}

BlankPost == FormData(EmptyText, NoGroup, NoImage)
LongPost == FormData(LongText, NoGroup, NoImage)
NewPostForms == {NoData, PlainPost, LongPost}

NewPost ==
    \E user \in Visitors, form \in NewPostForms :
        /\ login_required(user) /\ is_valid(form) => PostsBelow(MaxPosts)
        /\ new_post(user, form)

\* The ids of the posts there are, and one that names no post.
KnownIds == 1..(Len(posts) + 1)

EditPost ==
    \E p \in Procs, user \in Visitors, post_id \in KnownIds,
       form \in {NoData, PlainPost} :
        /\ FirstIdle(p)
        /\ login_required(user) => AllIdle
        /\ post_edit(p, user, "u1", post_id, form)

\* Every comment a worker has yet to save still fits the table.
CommentRowsLeft ==
    Len(comments) + Cardinality({q \in Procs : pc[q] = "comment_save"}) < MaxComments

Comment ==
    \E p \in Procs, user \in Visitors, post_id \in KnownIds :
        /\ FirstIdle(p)
        /\ login_required(user) => CommentRowsLeft
        /\ add_comment(p, user, "u1", post_id, PlainPost)

VisitorFeed ==
    \E p \in Procs, user \in Visitors, param \in {PageAbsent, PageText} :
        /\ FirstIdle(p)
        /\ login_required(user) => AllIdle
        /\ follow_index(p, user, param)

VisitorRequest ==
    \E p \in Procs, user \in Visitors, follow \in BOOLEAN :
        /\ FirstIdle(p)
        /\ login_required(user) => AllIdle
        /\ follow => FollowRowsLeft
        /\ profile_following(p, user, "u2", follow)

Next ==
    \/ NewPost \/ EditPost \/ EditSave \/ Comment \/ CommentSave
    \/ VisitorFeed \/ FeedRead
    \/ VisitorRequest \/ Create \/ Select \/ Delete

Spec == Init /\ [][Next]_vars

(***************************************************************************)
(* SpecEdit: next to a post of u2, u1 publishes posts, and two workers     *)
(* handle requests to edit them while the clock runs.                      *)
(***************************************************************************)
\* u2 has published one post.
InitEdit ==
    /\ posts = post_insert(<<>>, "u2", PlainPost, 0)
    /\ comments = <<>>
    /\ follows = {}
    /\ nextFollow = 1
    /\ cache = NoEntry
    /\ now = 0
    /\ pc = [p \in Procs |-> "idle"]
    /\ req = [p \in Procs |-> Idle]
    /\ overlap = FALSE
    /\ late = {}
    /\ resp = NoResponse

PublishPlain == PostsBelow(MaxPosts) /\ new_post("u1", PlainPost)

EditForms == {BlankPost, PlainPost, GroupPost}

\* Every client asks to edit, under the URL of u1, a post of u1, a post of
\* u2 or no post.
EditAny ==
    \E p \in Procs, user \in Clients, post_id \in KnownIds, form \in EditForms :
        FirstIdle(p) /\ post_edit(p, user, "u1", post_id, form)

\* The clock advances between requests.
EditClock == AllIdle /\ tick

NextEdit == PublishPlain \/ EditAny \/ EditSave \/ EditClock

SpecEdit == InitEdit /\ [][NextEdit]_vars

(***************************************************************************)
(* SpecPage: a Post table of up to MaxFeedPosts rows, every feed requested *)
(* with every kind of 'page' parameter, one request after the other, and   *)
(* one more post published while a request is being handled.               *)
(***************************************************************************)
\* Row i of a table filled over time by both users, most rows in group g1.
FeedRow(i) ==
    [id |-> i, text |-> <<"a">>, pub_date |-> (i \div 3) * TickStep,
     author |-> IF i % 4 = 0 THEN "u2" ELSE "u1",
     group |-> IF i % 6 = 0 THEN NoGroup ELSE "g1", image |-> NoImage]

\* u2 follows u1, with one row or with the two rows a race leaves.
FeedEdges ==
    {{}, {[id |-> 1, user |-> "u2", author |-> "u1"]},
     {[id |-> 1, user |-> "u2", author |-> "u1"],
      [id |-> 2, user |-> "u2", author |-> "u1"]}}

PageParams == {PageAbsent, PageText} \cup {PageInt(n) : n \in -1..4}

InitPage ==
    /\ \E n \in 0..MaxFeedPosts : posts = [i \in 1..n |-> FeedRow(i)]
    /\ comments = <<>>
    /\ follows \in FeedEdges
    /\ nextFollow = 3
    /\ cache = NoEntry
    /\ now = ((MaxFeedPosts + 1) \div 3) * TickStep
    /\ pc = [p \in Procs |-> "idle"]
    /\ req = [p \in Procs |-> Idle]
    /\ overlap = FALSE
    /\ late = {}
    /\ resp = NoResponse

HomePage == \E param \in PageParams : index(FeedWorker, "u2", param)

GroupPage == \E param \in PageParams : group_posts(FeedWorker, "u2", "g1", param)

ProfilePage == \E param \in PageParams : profile(FeedWorker, "u2", "u1", param)

FollowPage == \E param \in PageParams : follow_index(FeedWorker, "u2", param)

\* u1 publishes in g1 while a request is being handled, once in a run.
PublishDuring ==
    /\ ~AllIdle
    /\ \A i \in 1..Len(posts) : posts[i] = FeedRow(i)
    /\ new_post("u1", GroupPost)

NextPage ==
    \/ HomePage \/ HomeSelect \/ HomeStore
    \/ GroupPage \/ GroupRead
    \/ ProfilePage \/ ProfileCheck \/ ProfileRead
    \/ FollowPage \/ FeedRead
    \/ PublishDuring

SpecPage == InitPage /\ [][NextPage]_vars

(***************************************************************************)
(* Properties of the follow toggle.                                        *)
(***************************************************************************)
Count(edges, user, author) == Cardinality(Edges(edges, user, author))

\* Worker p answers, in this step, the request of `user` about `author`.
FollowAnswered(p, user, author) ==
    \/ profile_following(p, user, author, TRUE) /\ pc'[p] = "idle"
    \/ follow_create(p) /\ req[p].user = user /\ req[p].username = author

UnfollowAnswered(p, user, author) ==
    \/ profile_following(p, user, author, FALSE) /\ pc'[p] = "idle"
    \/ /\ req[p].user = user /\ req[p].username = author
       /\ \/ follow_get(p) /\ pc'[p] = "idle"
          \/ follow_delete(p)

RedirectsToProfile(r, author) ==
    r.status = 302 /\ r.location = Path("profile", author, 0)

\* C1: with requests handled one at a time from an empty Follow table, every
\* answered profile_follow of u for a (u # a) leaves exactly one (u, a) edge,
\* however many came before; every answered profile_unfollow leaves none; and
\* a profile_unfollow that finds no edge changes nothing.  Each is answered
\* with the redirect to a's profile.
C1_FollowUnfollowOneAtATime ==
    [][\A p \in Procs, u \in Users, a \in Users :
         u # a =>
           /\ FollowAnswered(p, u, a) =>
                Count(follows', u, a) = 1 /\ RedirectsToProfile(resp', a)
           /\ UnfollowAnswered(p, u, a) =>
                Count(follows', u, a) = 0 /\ RedirectsToProfile(resp', a)
           /\ profile_following(p, u, a, FALSE) /\ Count(follows, u, a) = 0 =>
                follows' = follows /\ pc' = pc]_vars

\* C1 witness: an edge was created and a later unfollow removed it.
C1_Witness ==
    /\ resp.view = "profile_unfollow"
    /\ resp.status = 302
    /\ nextFollow > 1
    /\ follows = {}
    /\ AllIdle

\* C2: no Follow row ever has user = author, under any interleaving, and a
\* request of u to follow or unfollow u inserts nothing, raises nothing and
\* is answered with the redirect to u's profile.
C2_NoSelfFollow ==
    [][/\ \A f \in follows' : f.user # f.author
       /\ \A p \in Procs, u \in Users, follow \in BOOLEAN :
            profile_following(p, u, u, follow) =>
              /\ follows' = follows
              /\ pc' = pc
              /\ resp'.client = u
              /\ RedirectsToProfile(resp', u)]_vars

\* C2 witness: u1 asked to follow u1 while the table held rows, and got the
\* redirect to their own profile.
C2_Witness ==
    /\ resp.view = "profile_follow"
    /\ resp.client = "u1"
    /\ RedirectsToProfile(resp, "u1")
    /\ follows # {}

\* C4: a profile_unfollow of u for a that finds at least one (u, a) edge goes
\* on to delete exactly one of them and redirects to a's profile; one that
\* finds none changes nothing.
C4_UnfollowDeletesExactlyOne ==
    [][\A p \in Procs :
         /\ follow_get(p) /\ Count(follows, req[p].user, req[p].username) >= 1 =>
              pc'[p] = "delete"
         /\ follow_delete(p) =>
              /\ Count(follows', req[p].user, req[p].username)
                   = Count(follows, req[p].user, req[p].username) - 1
              /\ RedirectsToProfile(resp', req[p].username)
         /\ \A u \in Users, a \in Users :
              /\ u # a
              /\ profile_following(p, u, a, FALSE)
              /\ Count(follows, u, a) = 0
              => follows' = follows /\ pc' = pc]_vars

\* C9: the insert of profile_follow adds a row whatever the table holds, so
\* two requests that both passed the existence check leave two edges; and as
\* long as no request began while another was being handled, no pair has
\* more than one edge.
C9_CheckThenCreateRace ==
    [][/\ \A p \in Procs :
            follow_create(p) =>
              Count(follows', req[p].user, req[p].username)
                = Count(follows, req[p].user, req[p].username) + 1
       /\ \A p \in Procs, q \in Procs :
            /\ p # q
            /\ pc[p] = "create" /\ pc[q] = "create"
            /\ req[p] = req[q]
            /\ follow_create(p)
            => pc'[q] = "create"
       /\ ~overlap' => \A u \in Users, a \in Users : Count(follows', u, a) <= 1]_vars

\* C9 witness: two interleaved profile_follow requests left two (u1, u2) edges.
C9_Witness == overlap /\ Count(follows, "u1", "u2") = 2 /\ AllIdle

PageIds(page) == {page[i].id : i \in 1..Len(page)}

\* Every post of the list is there once.
NoDuplicates(list) ==
    \A i \in 1..Len(list), j \in 1..Len(list) : i # j => list[i].id # list[j].id

\* C10: a follow feed of u never lists a post of an author u does not follow
\* and never lists a post twice; and when nothing was published, followed or
\* unfollowed between the request's count and its page (the count still is
\* the number of posts of followed authors), it lists exactly those posts.
C10_FollowFeedExactlyFollowed ==
    [][\A p \in Procs :
         follow_page(p) =>
           LET ids == {i \in 1..Len(posts) :
                         Count(follows, req[p].user, posts[i].author) >= 1}
           IN  /\ PageIds(resp'.page) \subseteq ids
               /\ NoDuplicates(resp'.page)
               /\ req[p].count = Cardinality(ids) => PageIds(resp'.page) = ids]_vars

(***************************************************************************)
(* Properties of the cache and of the feeds read from storage.             *)
(***************************************************************************)
\* The list holds the posts of `ids`, each once, newest first.
ListsNewestFirst(list, ids) ==
    /\ PageIds(list) = ids
    /\ Len(list) = Cardinality(ids)
    /\ \A i \in 1..Len(list), j \in 1..Len(list) : i < j => list[i].id > list[j].id

Max(S) == CHOOSE x \in S : \A y \in S : y <= x

\* The entry 'index_page' is there and its 20 seconds are not over.
EntryLive == cache.present /\ now < cache.exp

\* C3: on a miss index reads the whole Post table and stores it for 20
\* seconds; on a hit it answers with the stored list and leaves the entry as
\* it is.  So a post created while the entry was live is in no response
\* answered from the entry, and it is in the first home-feed response sent
\* once the entry has expired or was cleared.
C3_HomeFeedServedFromCache ==
    [][\A p \in Procs :
         /\ index_select(p) => ListsNewestFirst(req'[p].data, 1..Len(posts))
         /\ index_set(p) =>
              /\ cache'.present
              /\ cache'.exp = now + CacheTimeout
              /\ cache'.data = req[p].data
              /\ resp'.page = req[p].data
              /\ ~EntryLive => late \subseteq PageIds(resp'.page)
         /\ \A user \in Readers :
              EntryLive /\ index(p, user, PageAbsent) =>
                /\ cache' = cache
                /\ resp'.page = cache.data
                /\ late \cap PageIds(resp'.page) = {}]_vars

\* The page holds the newest posts of `ids`, as many as were counted, each as
\* the table has it, the newest on top.
ShowsNewest(page, ids, count) ==
    /\ PageIds(page) \subseteq ids
    /\ Len(page) = IF count <= Cardinality(ids) THEN count ELSE Cardinality(ids)
    /\ \A i \in 1..Len(page), j \in 1..Len(page) : i < j => page[i].id > page[j].id
    /\ \A i \in ids : (\E k \in 1..Len(page) : page[k].id < i) => i \in PageIds(page)
    /\ \A k \in 1..Len(page) : page[k] = posts[page[k].id]
    /\ count >= 1 => Len(page) >= 1 /\ page[1] = posts[Max(ids)]

GroupIds(slug) == {i \in 1..Len(posts) : posts[i].group = slug}

AuthorIds(author) == {i \in 1..Len(posts) : posts[i].author = author}

FollowedIds(user) ==
    {i \in 1..Len(posts) : Count(follows, user, posts[i].author) >= 1}

\* C8: the group, profile and follow feeds are read from the Post table at
\* every request, whatever the cache entry holds, and leave the entry alone:
\* a request that counted at least one post shows on top the newest post of
\* the feed that the table holds when the page is read, so a post just
\* created tops its group's and its author's feed.  The page is made of the
\* newest posts of the feed, as many as the request counted.
C8_OtherFeedsReadStorage ==
    [][/\ \A p \in Procs :
            /\ group_page(p) =>
                 ShowsNewest(resp'.page, GroupIds(req[p].slug), req[p].count)
            /\ profile_page(p) =>
                 ShowsNewest(resp'.page, AuthorIds(req[p].username), req[p].count)
            /\ follow_page(p) =>
                 ShowsNewest(resp'.page, FollowedIds(req[p].user), req[p].count)
       /\ \/ GroupFeed \/ GroupRead \/ ProfileFeed \/ ProfileCheck \/ ProfileRead
          \/ FollowFeed \/ FeedRead \/ PublishAny
          => cache' = cache]_vars

\* C8 witness: the group feed was answered with the newest post on top while
\* the live cache entry of the home feed does not hold that post.
C8_Witness ==
    /\ resp.view = "group_posts"
    /\ resp.status = 200
    /\ Len(posts) >= 1
    /\ Len(resp.page) >= 1
    /\ resp.page[1] = posts[Len(posts)]
    /\ EntryLive
    /\ Len(posts) \notin PageIds(cache.data)

(***************************************************************************)
(* Properties of the login-required views and of post_edit.                *)
(***************************************************************************)
RedirectsToLogin(r, path) ==
    /\ r.status = 302
    /\ r.location = Path("login", "", 0)
    /\ r.next = path

TablesUnchanged ==
    posts' = posts /\ comments' = comments /\ follows' = follows /\ pc' = pc

\* C5: a client that is not logged in gets, from each of new_post, post_edit,
\* add_comment, follow_index, profile_follow and profile_unfollow, the
\* redirect to the login URL with next = the path requested (with its query
\* string), whatever the workers are doing, and the Post, Comment and Follow
\* tables stay as they are.
C5_AnonymousRedirectedToLogin ==
    [][/\ \A form \in NewPostForms :
            new_post(Anonymous, form) =>
              RedirectsToLogin(resp', Path("new_post", "", 0)) /\ TablesUnchanged
       /\ \A p \in Procs :
            /\ \A post_id \in KnownIds :
                 add_comment(p, Anonymous, "u1", post_id, PlainPost) =>
                   /\ RedirectsToLogin(resp', Path("add_comment", "u1", post_id))
                   /\ TablesUnchanged
            /\ \A post_id \in KnownIds, form \in {NoData, PlainPost} :
                 post_edit(p, Anonymous, "u1", post_id, form) =>
                   /\ RedirectsToLogin(resp', Path("post_edit", "u1", post_id))
                   /\ TablesUnchanged
            /\ \A param \in {PageAbsent, PageText} :
                 follow_index(p, Anonymous, param) =>
                   /\ RedirectsToLogin(resp', FullPath("follow_index", param))
                   /\ TablesUnchanged
            /\ profile_following(p, Anonymous, "u2", TRUE) =>
                 /\ RedirectsToLogin(resp', Path("profile_follow", "u2", 0))
                 /\ TablesUnchanged
            /\ profile_following(p, Anonymous, "u2", FALSE) =>
                 /\ RedirectsToLogin(resp', Path("profile_unfollow", "u2", 0))
                 /\ TablesUnchanged]_vars

\* C5 witness: a client not logged in posted a comment form to an existing
\* post and was sent to the login URL; no comment exists.
C5_Witness ==
    /\ resp.view = "add_comment"
    /\ RedirectsToLogin(resp, Path("add_comment", "u1", 1))
    /\ Len(posts) >= 1
    /\ posts[1].author = "u1"
    /\ comments = <<>>

\* C6: only the save of a post_edit request changes a post, and only for the
\* logged-in user named in the URL and the post of that id, which is theirs:
\* it sets the text and the group (and the image, when one is uploaded) of
\* that row, whose id, author and pub_date stay, touches no other row and
\* adds none, and redirects to the post page.  A logged-in user not named in
\* the URL changes nothing and is redirected to the post page at once.
C6_EditOnlyOwnPost ==
    [][/\ \A p \in Procs :
            post_save(p) =>
              LET id == req[p].post_id
                  form == req[p].form
              IN  /\ req[p].user = req[p].username
                  /\ id \in 1..Len(posts)
                  /\ posts[id].author = req[p].user
                  /\ Len(posts') = Len(posts)
                  /\ \A i \in 1..Len(posts) : i # id => posts'[i] = posts[i]
                  /\ posts'[id].id = id
                  /\ posts'[id].author = posts[id].author
                  /\ posts'[id].pub_date = posts[id].pub_date
                  /\ posts'[id].text = form.text
                  /\ posts'[id].group = form.group
                  /\ form.image # NoImage => posts'[id].image = form.image
                  /\ resp'.status = 302
                  /\ resp'.location = Path("post", req[p].username, id)
       /\ \A p \in Procs :
            pc[p] = "idle" /\ pc'[p] = "post_save" =>
              /\ posts' = posts
              /\ req'[p].user = req'[p].username
              /\ req'[p].post_id \in 1..Len(posts)
              /\ posts[req'[p].post_id].author = req'[p].user
       /\ \A p \in Procs, post_id \in KnownIds, form \in EditForms :
            post_edit(p, "u2", "u1", post_id, form) =>
              /\ posts' = posts
              /\ pc' = pc
              /\ resp'.status = 302
              /\ resp'.location = Path("post", "u1", post_id)
       /\ posts' # posts =>
            (\E p \in Procs : pc[p] = "post_save") \/ Len(posts') > Len(posts)]_vars

\* C6 witness: the post u1 published earlier was edited by u1: new text,
\* group and image, the pub_date of its creation; the post of u2 is as it was.
C6_Witness ==
    /\ resp.view = "post_edit"
    /\ resp.status = 302
    /\ resp.client = "u1"
    /\ Len(posts) >= 2
    /\ posts[2].author = "u1"
    /\ posts[2].text = <<"b">>
    /\ posts[2].group = "g1"
    /\ posts[2].image = "pic.jpg"
    /\ posts[2].pub_date < now
    /\ posts[1] = post_insert(<<>>, "u2", PlainPost, 0)[1]

(***************************************************************************)
(* Properties of the pagination.                                           *)
(***************************************************************************)
\* Page k of a list that was counted `count` rows long.
PageOf(list, count, k) ==
    LET last == IF k * PerPage < count THEN k * PerPage ELSE count
    IN  SubSeq(list, (k - 1) * PerPage + 1,
               IF last < Len(list) THEN last ELSE Len(list))

LastPageOf(count) ==
    IF count = 0 THEN 1 ELSE (count + PerPage - 1) \div PerPage

NewestFirst(page) ==
    \A i \in 1..Len(page), j \in 1..Len(page) :
        i < j => \/ page[i].pub_date > page[j].pub_date
                 \/ page[i].pub_date = page[j].pub_date /\ page[i].id >= page[j].id

\* The page the claim promises: the first page for what is no number and for
\* numbers below the range, the last page for numbers above it.
NearestPage(list, count, param) ==
    IF param.kind # "int" THEN PageOf(list, count, 1)
    ELSE IF param.n < 1 THEN PageOf(list, count, 1)
    ELSE IF param.n > LastPageOf(count) THEN PageOf(list, count, LastPageOf(count))
    ELSE PageOf(list, count, param.n)

\* The page Django's get_page gives: the first page for what is no number,
\* the last page for every number outside the range.
FallbackPage(list, count, param) ==
    IF param.kind # "int" THEN PageOf(list, count, 1)
    ELSE IF param.n < 1 \/ param.n > LastPageOf(count)
    THEN PageOf(list, count, LastPageOf(count))
    ELSE PageOf(list, count, param.n)

\* The response is a page of at most 10 posts, newest first: this one.
Shows(r, page) ==
    /\ r.status = 200
    /\ Len(r.page) <= PerPage
    /\ NewestFirst(r.page)
    /\ r.page = page

\* C7 as claimed: every feed, for every 'page' value, answers 200 with at most
\* 10 posts, newest first, and an invalid value gives the first page (not a
\* number, or below the range) or the last page (above the range).
C7_NearestPageAsClaimed ==
    [][\A p \in Procs :
         /\ \A param \in PageParams :
              EntryLive /\ index(p, "u2", param) =>
                Shows(resp', NearestPage(cache.data, Len(cache.data), param))
         /\ index_set(p) =>
              Shows(resp', NearestPage(req[p].data, Len(req[p].data), req[p].param))
         /\ group_page(p) =>
              Shows(resp', NearestPage(GroupPosts(posts, req[p].slug),
                                       req[p].count, req[p].param))
         /\ profile_page(p) =>
              Shows(resp', NearestPage(AuthorPosts(posts, req[p].username),
                                       req[p].count, req[p].param))
         /\ follow_page(p) =>
              Shows(resp', NearestPage(FollowedPosts(posts, follows, req[p].user),
                                       req[p].count, req[p].param))]_vars

\* C7 as amended: the same, with the last page for every number outside the
\* range, below it as well as above it; the pages are those of the feed as
\* the request counted it.
C7_FallbackPage ==
    [][\A p \in Procs :
         /\ \A param \in PageParams :
              EntryLive /\ index(p, "u2", param) =>
                Shows(resp', FallbackPage(cache.data, Len(cache.data), param))
         /\ index_set(p) =>
              Shows(resp', FallbackPage(req[p].data, Len(req[p].data), req[p].param))
         /\ group_page(p) =>
              Shows(resp', FallbackPage(GroupPosts(posts, req[p].slug),
                                        req[p].count, req[p].param))
         /\ profile_page(p) =>
              Shows(resp', FallbackPage(AuthorPosts(posts, req[p].username),
                                        req[p].count, req[p].param))
         /\ follow_page(p) =>
              Shows(resp', FallbackPage(FollowedPosts(posts, follows, req[p].user),
                                        req[p].count, req[p].param))]_vars

\* C7 witness: with more than two pages of posts by u1, the profile feed
\* answered with the last, partly filled page, which ends with the oldest post.
C7_Witness ==
    /\ resp.view = "profile"
    /\ Len(posts) > 2 * PerPage
    /\ Len(resp.page) >= 1
    /\ Len(resp.page) < PerPage
    /\ resp.page[Len(resp.page)].id = 1

====
